---- MODULE Spec2Model ----
(***************************************************************************)
(* Real-time voice conversation orchestrator of mind_apis:                 *)
(*   RealtimeServer        (src/unnamed/part_011, lines 233-1071)          *)
(*   StateManager          (src/realtime/stateManager.js)                  *)
(*   OpenAIRealtimeClient  (src/unnamed/part_010)                          *)
(*   ElevenLabsStreamingClient (src/realtime/elevenLabsStreamingClient.js) *)
(*   AudioProcessor        (src/unnamed/part_006, lines 94-229)            *)
(*                                                                         *)
(* Node.js runs every handler to its next await without interleaving, so   *)
(* an action is one handler run from the event that starts it to its next  *)
(* await (or its end).  The two adapters are process-wide EventEmitter     *)
(* singletons: an emit runs every listener registered on the singleton, in *)
(* registration order, whichever connection registered it.                 *)
(***************************************************************************)
EXTENDS Integers, Sequences, FiniteSets, TLC

\* ------------------------------------------------------------------ bounds
\* The actions below carry no bound: each specification bounds, in its next-state
\* relation, the events it lets happen.
MaxFrames == 2        \* Spec: inbound audio frames of the connection
MaxStreams == 2       \* Spec: synthesis streams started
MaxResponses == 1     \* Spec: responses of the model session
MaxClock == 1500      \* SpecSilence: Date.now() stops advancing here (ms)
TickMs == 500         \* SpecSilence: granularity of the clock (ms)
SilenceFrames == 3    \* SpecSilence: inbound audio frames of the connection
LifeStreams == 1      \* SpecLifecycle: synthesis streams started
LifeResponses == 1    \* SpecLifecycle: responses of the model session
BargeFrames == 2      \* SpecBargeIn: inbound audio frames of the connection
BargeStreams == 2     \* SpecBargeIn: synthesis streams started
BargeResponses == 1   \* SpecBargeIn: responses of the model session
TwoStreams == 2       \* SpecTwo: synthesis streams started
TwoResponses == 1     \* SpecTwo: responses of each model session
TimeoutClock == 12500 \* SpecTimeout: Date.now() stops advancing here (ms)
TimeoutTickMs == 2500 \* SpecTimeout: granularity of the clock (ms)
TimeoutFrames == 1    \* SpecTimeout: inbound audio frames of the connection
BufferFrames == 102   \* SpecBuffer: inbound audio frames of the connection
LateResponses == 1    \* SpecLate: responses of each model session
SynthFrames == 1      \* SpecSynthesis: inbound audio frames of the connection
SynthStreams == 2     \* SpecSynthesis: synthesis streams started
SynthResponses == 1   \* SpecSynthesis: responses of the model session
AudioFrames == 3      \* SpecAudio: binary messages of the connection
TeardownStreams == 2  \* SpecTeardown: synthesis streams
TeardownResponses == 1 \* SpecTeardown: responses of the session
GreetFrames == 2      \* SpecGreeting: frames of the connection
GreetResponses == 2   \* SpecGreeting: responses of the session
AbortFrames == 1      \* SpecAbort: inbound audio frames of connection 1
AbortStreams == 2     \* SpecAbort: synthesis streams started
AbortResponses == 1   \* SpecAbort: responses of the model session of connection 1

\* ------------------------------------------------------- program constants
Null == 0                     \* null / undefined (falsy, like the code tests it)
silenceDurationMs == 1000     \* RealtimeServer.silenceDurationMs
AudioBufferLimit == 100       \* StateManager.addAudioChunk
SessionTimeoutMs == 10000     \* OpenAIRealtimeClient.createSession

Conns == {1, 2}                     \* client sockets that may connect
Users == {"u1", "u2"}               \* authenticated user ids
Consultant == "k1"                  \* the consultantId of the query string
Frames == {<<0, 0>>, <<200, 0>>}    \* PCM16-LE frames: one zero sample, one sample of 200
\* binary messages of any length: empty, odd-length, even-length, and an odd-length
\* one with more than 10 non-zero bytes
Chunks == { <<>>, <<7>>, <<0, 0>>, <<200, 0>>, <<200, 0, 1>>,
            <<1, 1, 1, 1, 1, 1, 1, 1, 1, 1, 1, 1, 1>> }
Deltas == {<<"H", "i">>, <<" ">>, <<>>}   \* event.delta: a text fragment, a blank one, an empty one
Persona == "persona"                \* consultant.mainPrompt
PersonaInLanguage == "persona, respond in the user's language"  \* createSession's config
GreetingPrompt == "greeting"        \* greetingInstructions

VARIABLES
  now,            \* Date.now()
  pc,             \* [Conns -> position of handleConnection]
  connectionId,   \* [Conns -> the connectionId of handleConnection's closure]
  ws,             \* [Conns -> readyState of the client socket]
  wsListening,    \* [Conns -> ws.on('message'/'close'/'error') registered]
  closeEvents,    \* [Conns -> close/error events of the socket not yet dispatched]
  framesIn,       \* [Conns -> audioChunkCount]
  store,          \* StateManager.connections: connectionId -> entry
  session,        \* [Conns -> readyState of the OpenAI session socket]
  instructions,   \* [Conns -> instructions the session currently has]
  resp,           \* [Conns -> the model's response in flight: no, status, audio]
  oaListeners,    \* listeners on the OpenAIRealtimeClient singleton (registration order)
  streams,        \* synthesis requests, by AbortController: conn, text, src, resp, phase
  aborted,        \* AbortControllers whose signal is aborted
  elListeners,    \* 'audio_chunk' listeners on the ElevenLabsStreamingClient singleton
  endOnce,        \* once('stream_end') listeners
  abortedOnce,    \* once('stream_aborted') listeners
  greeting,       \* [Conns -> position of the greeting timer / sendInitialGreeting]
  cleanups,       \* [Conns -> cleanupConnection invocations suspended at their await]
  hist,           \* [Conns -> history the properties speak about]
  obs             \* what the last handler did: its kind, connection, messages, calls

vars == <<now, pc, connectionId, ws, wsListening, closeEvents, framesIn, store, session,
          instructions, resp, oaListeners, streams, aborted, elListeners, endOnce,
          abortedOnce, greeting, cleanups, hist, obs>>

\* ------------------------------------------------------------ AudioProcessor
\* Buffer.readInt16LE(i)
readInt16LE(buf, i) ==
  LET u == buf[i] + 256 * buf[i + 1] IN IF u >= 32768 THEN u - 65536 ELSE u

RECURSIVE SumSquares(_, _)
SumSquares(buf, i) ==
  IF i > Len(buf) THEN 0
  ELSE readInt16LE(buf, i) * readInt16LE(buf, i) + SumSquares(buf, i + 2)

\* calculateRMS(buf) < silenceThreshold (0.005), for an even-length buffer:
\*   sqrt(sum / 32768^2 / samples) < 5/1000  <=>  sum * 625 < samples * 2^24
RmsBelowThreshold(buf) == SumSquares(buf, 1) * 625 < (Len(buf) \div 2) * 16777216

\* calculateRMS(buf) throws: the loop's last readInt16LE(i) of an odd-length buffer
\* has one byte left to read (RangeError, ERR_OUT_OF_RANGE)
calculateRMSThrows(buf) == Len(buf) % 2 = 1

\* the catch of processAudioChunk: the non-zero bytes among the first 100
NonZeroCount(chunk) ==
  Cardinality({i \in 1..(IF Len(chunk) < 100 THEN Len(chunk) ELSE 100) : chunk[i] # 0})

\* processAudioChunk(chunk, silenceThreshold).isSilent
isSilent(chunk) ==
  IF Len(chunk) = 0 THEN TRUE
  ELSE IF calculateRMSThrows(chunk) THEN ~(NonZeroCount(chunk) > 10)
  ELSE RmsBelowThreshold(chunk)

\* -------------------------------------------------------------- StateManager
NewEntry ==
  [ isUserSpeaking |-> FALSE, isAISpeaking |-> FALSE,
    lastUserAudioTime |-> Null, silenceStartTime |-> Null,
    elevenlabsAbortController |-> Null, openaiAbortController |-> Null,
    audioBuffer |-> <<>>, textBuffer |-> <<>>,
    restoreInstructionsAfterGreeting |-> FALSE, originalInstructions |-> "",
    eventHandlers |-> Null, elevenLabsChunkHandler |-> Null ]

Has(s, id) == id \in DOMAIN s

initialize(s, id) == [x \in (DOMAIN s) \cup {id} |-> IF x = id THEN NewEntry ELSE s[x]]

setUserSpeaking(s, id, speaking, t) ==
  IF ~Has(s, id) THEN s
  ELSE IF speaking
       THEN [s EXCEPT ![id].isUserSpeaking = TRUE, ![id].lastUserAudioTime = t,
                      ![id].silenceStartTime = Null]
       ELSE [s EXCEPT ![id].isUserSpeaking = FALSE, ![id].silenceStartTime = t]

setAISpeaking(s, id, speaking) ==
  IF ~Has(s, id) THEN s ELSE [s EXCEPT ![id].isAISpeaking = speaking]

shouldBargeIn(s, id) ==
  IF ~Has(s, id) THEN FALSE ELSE s[id].isUserSpeaking /\ s[id].isAISpeaking

setElevenLabsAbortController(s, id, controller) ==
  IF ~Has(s, id) THEN s ELSE [s EXCEPT ![id].elevenlabsAbortController = controller]

\* addAudioChunk that drops the newest frame of a full buffer
addAudioChunk_dropsNewest(s, id, chunk) ==
  IF ~Has(s, id) THEN s
  ELSE LET b == Append(s[id].audioBuffer, chunk)
       IN [s EXCEPT ![id].audioBuffer =
             IF Len(b) > AudioBufferLimit THEN SubSeq(b, 1, AudioBufferLimit) ELSE b]

addAudioChunk(s, id, chunk) ==
  IF ~Has(s, id) THEN s
  ELSE LET b == Append(s[id].audioBuffer, chunk)
       IN [s EXCEPT ![id].audioBuffer = IF Len(b) > AudioBufferLimit THEN Tail(b) ELSE b]

clearAudioBuffer(s, id) == IF ~Has(s, id) THEN s ELSE [s EXCEPT ![id].audioBuffer = <<>>]

addText(s, id, text) ==
  IF ~Has(s, id) THEN s ELSE [s EXCEPT ![id].textBuffer = @ \o text]

clearTextBuffer(s, id) == IF ~Has(s, id) THEN s ELSE [s EXCEPT ![id].textBuffer = <<>>]

\* isSilenceDetected that asks for more than the threshold
isSilenceDetected_strictlyLonger(s, id, thresholdMs, t) ==
  IF ~Has(s, id) THEN FALSE
  ELSE IF s[id].silenceStartTime = Null THEN FALSE
  ELSE (t - s[id].silenceStartTime > thresholdMs) /\ ~s[id].isUserSpeaking

isSilenceDetected(s, id, thresholdMs, t) ==
  IF ~Has(s, id) THEN FALSE
  ELSE IF s[id].silenceStartTime = Null THEN FALSE
  ELSE (t - s[id].silenceStartTime >= thresholdMs) /\ ~s[id].isUserSpeaking

\* abortAIResponse that aborts the stored handles and leaves them stored
abortAIResponse_keepsHandles(m, id) ==
  IF ~Has(m.store, id) THEN m
  ELSE LET e == m.store[id]
           live == {e.elevenlabsAbortController, e.openaiAbortController} \ {Null}
       IN [m EXCEPT !.aborted = @ \cup live,
                    !.store[id].isAISpeaking = FALSE,
                    !.store[id].textBuffer = <<>>]

\* abortAIResponse that also empties the audio buffer
abortAIResponse_clearsAudio(m, id) ==
  IF ~Has(m.store, id) THEN m
  ELSE LET e == m.store[id]
           live == {e.elevenlabsAbortController, e.openaiAbortController} \ {Null}
       IN [m EXCEPT !.aborted = @ \cup live,
                    !.store[id].elevenlabsAbortController = Null,
                    !.store[id].openaiAbortController = Null,
                    !.store[id].isAISpeaking = FALSE,
                    !.store[id].textBuffer = <<>>,
                    !.store[id].audioBuffer = <<>>]

\* abortAIResponse without its reset of isAISpeaking
abortAIResponse_keepsSpeaking(m, id) ==
  IF ~Has(m.store, id) THEN m
  ELSE LET e == m.store[id]
           live == {e.elevenlabsAbortController, e.openaiAbortController} \ {Null}
       IN [m EXCEPT !.aborted = @ \cup live,
                    !.store[id].elevenlabsAbortController = Null,
                    !.store[id].openaiAbortController = Null,
                    !.store[id].textBuffer = <<>>]

abortAIResponse(m, id) ==
  IF ~Has(m.store, id) THEN m
  ELSE LET e == m.store[id]
           live == {e.elevenlabsAbortController, e.openaiAbortController} \ {Null}
       IN [m EXCEPT !.aborted = @ \cup live,
                    !.store[id].elevenlabsAbortController = Null,
                    !.store[id].openaiAbortController = Null,
                    !.store[id].isAISpeaking = FALSE,
                    !.store[id].textBuffer = <<>>]

\* remove that deletes the entry without aborting its handles
remove_withoutAbort(m, id) ==
  [m EXCEPT !.store = [x \in (DOMAIN m.store) \ {id} |-> m.store[x]]]

\* remove that leaves the entry in the map
remove_keepsEntry(m, id) == m

remove(m, id) ==
  LET m1 == IF Has(m.store, id) THEN abortAIResponse(m, id) ELSE m
  IN [m1 EXCEPT !.store = [x \in (DOMAIN m1.store) \ {id} |-> m1.store[x]]]

\* ------------------------------------------------- the state a handler works on
Cur ==
  [ store |-> store, session |-> session, instructions |-> instructions, resp |-> resp,
    oaListeners |-> oaListeners, streams |-> streams, aborted |-> aborted,
    elListeners |-> elListeners, endOnce |-> endOnce, abortedOnce |-> abortedOnce,
    hist |-> hist, sent |-> <<>>, calls |-> <<>>, threw |-> FALSE ]

Commit(m, kind, c) ==
  /\ store' = m.store
  /\ session' = m.session
  /\ instructions' = m.instructions
  /\ resp' = m.resp
  /\ oaListeners' = m.oaListeners
  /\ streams' = m.streams
  /\ aborted' = m.aborted
  /\ elListeners' = m.elListeners
  /\ endOnce' = m.endOnce
  /\ abortedOnce' = m.abortedOnce
  /\ hist' = m.hist
  /\ obs' = [kind |-> kind, conn |-> c, sent |-> m.sent, calls |-> m.calls, threw |-> m.threw]

Call(m, op, c) == [m EXCEPT !.calls = Append(@, [op |-> op, conn |-> c])]

\* ws.send(...) on the client socket of connection c: a socket that is not open
\* delivers nothing (ws passes the error to the callback, which no caller gives).
WsSend(m, c, type, stream) ==
  IF ws[c] = "open"
  THEN [m EXCEPT !.sent = Append(@, [to |-> c, type |-> type, stream |-> stream])]
  ELSE m

\* ------------------------------------------------------ OpenAIRealtimeClient
\* sendAudioInput without its readyState check
sendAudioInput_whenClosed(m, c) ==
  [Call(m, "sendAudioInput", c) EXCEPT !.resp[c].pending = TRUE]

sendAudioInput(m, c) ==
  IF m.session[c] # "open" THEN m
  ELSE [Call(m, "sendAudioInput", c) EXCEPT !.resp[c].pending = TRUE]

signalAudioInputDone(m, c) ==
  IF m.session[c] # "open" THEN m
  ELSE [Call(m, "signalAudioInputDone", c) EXCEPT !.resp[c].pending = TRUE]

cancelResponse(m, c) ==
  IF m.session[c] # "open" THEN m
  ELSE [Call(m, "cancelResponse", c) EXCEPT
          !.resp[c].status = IF @ = "active" THEN "cancelling" ELSE @]

createResponse(m, c) ==
  IF m.session[c] # "open" THEN m
  ELSE [Call(m, "createResponse", c) EXCEPT !.resp[c].pending = TRUE]

updateSessionInstructions(m, c, text) ==
  IF m.session[c] # "open" THEN m
  ELSE [Call(m, "updateSessionInstructions", c) EXCEPT !.instructions[c] = text]

\* closeSession without its readyState check
closeSession_unchecked(m, c) ==
  [Call(m, "closeSession", c) EXCEPT !.session[c] = "closed"]

closeSession(m, c) ==
  IF m.session[c] # "open" THEN m
  ELSE [Call(m, "closeSession", c) EXCEPT !.session[c] = "closed"]

\* String.prototype.trim() leaves nothing
Whitespace == {" "}
IsBlank(text) == \A i \in 1..Len(text) : text[i] \in Whitespace

\* ------------------------------------------------------------ listener runs
\* EventEmitter.emit: the listeners in registration order; one that throws ends the run
RECURSIVE EmitSeq(_, _, _)
EmitSeq(Handler(_, _), listeners, m) ==
  IF listeners = <<>> \/ m.threw THEN m
  ELSE EmitSeq(Handler, Tail(listeners), Handler(m, Head(listeners)))

Min(S) == CHOOSE x \in S : \A y \in S : x <= y

RECURSIVE SeqOfSet(_)
SeqOfSet(S) == IF S = {} THEN <<>> ELSE <<Min(S)>> \o SeqOfSet(S \ {Min(S)})

\* ------------------------------------------------------------ RealtimeServer
\* streamTextDeltaToElevenLabs up to its await of streamTextToSpeech: the delta is of
\* response rno of the session of connection src
streamTextDeltaToElevenLabs(m, c, textDelta, src, rno) ==
  LET id == connectionId[c] IN
  IF ~Has(m.store, id) THEN m
  ELSE IF shouldBargeIn(m.store, id)
  THEN abortAIResponse(Call(m, "abortAIResponse", c), id)
  ELSE
    LET wasAISpeaking == m.store[id].isAISpeaking
        m1 == [m EXCEPT !.store = setAISpeaking(m.store, id, TRUE)]
        m2 == IF ~wasAISpeaking THEN WsSend(m1, c, "ai_speaking_start", Null) ELSE m1
        abortController == Len(m2.streams) + 1
        m3 == [m2 EXCEPT
                 !.store = setElevenLabsAbortController(m2.store, id, abortController),
                 !.streams = Append(@, [conn |-> c, text |-> textDelta, src |-> src,
                                        resp |-> rno, phase |-> "request"])]
    IN Call(m3, "streamTextToSpeech", c)

\* textDeltaHandler without its test for an empty or blank fragment
textDeltaHandler_synthesizesBlank(m, c, textDelta, src, rno) ==
  LET id == connectionId[c]
      m1 == [m EXCEPT !.store = addText(m.store, id, textDelta)]
      wasAISpeaking == IF Has(m1.store, id) THEN m1.store[id].isAISpeaking ELSE FALSE
      m2 == IF ~wasAISpeaking THEN WsSend(m1, c, "ai_speaking_start", Null) ELSE m1
  IN streamTextDeltaToElevenLabs(m2, c, textDelta, src, rno)

\* textDeltaHandler of connection c, run for a text_delta event of any session
textDeltaHandler(m, c, textDelta, src, rno) ==
  LET id == connectionId[c] IN
  IF Len(textDelta) = 0 \/ IsBlank(textDelta) THEN m
  ELSE
    LET m1 == [m EXCEPT !.store = addText(m.store, id, textDelta)]
        wasAISpeaking == IF Has(m1.store, id) THEN m1.store[id].isAISpeaking ELSE FALSE
        m2 == IF ~wasAISpeaking THEN WsSend(m1, c, "ai_speaking_start", Null) ELSE m1
    IN streamTextDeltaToElevenLabs(m2, c, textDelta, src, rno)

\* responseDoneHandler that leaves the text buffer as it is
responseDoneHandler_keepsText(m, c) ==
  LET id == connectionId[c]
      m1 == [m EXCEPT !.store = setAISpeaking(m.store, id, FALSE)]
  IN IF ~Has(m1.store, id) THEN [m1 EXCEPT !.threw = TRUE]
     ELSE WsSend(m1, c, "ai_response_complete", Null)

\* responseDoneHandler of connection c: state._restore... of an absent entry throws
responseDoneHandler(m, c) ==
  LET id == connectionId[c]
      m1 == [m EXCEPT !.store = clearTextBuffer(setAISpeaking(m.store, id, FALSE), id)]
  IN IF ~Has(m1.store, id) THEN [m1 EXCEPT !.threw = TRUE]
     ELSE
       LET e == m1.store[id]
           m2 == IF e.restoreInstructionsAfterGreeting /\ e.originalInstructions # ""
                 THEN [updateSessionInstructions(m1, c, e.originalInstructions) EXCEPT
                         !.store[id].restoreInstructionsAfterGreeting = FALSE,
                         !.store[id].originalInstructions = ""]
                 ELSE m1
       IN WsSend(m2, c, "ai_response_complete", Null)

\* responseInterruptedHandler that restores the saved instructions as
\* responseDoneHandler does
responseInterruptedHandler_restores(m, c) ==
  LET id == connectionId[c]
      m1 == [m EXCEPT !.store = clearTextBuffer(setAISpeaking(m.store, id, FALSE), id)]
      m2 == IF Has(m1.store, id) /\ m1.store[id].restoreInstructionsAfterGreeting
            THEN [updateSessionInstructions(m1, c, m1.store[id].originalInstructions)
                    EXCEPT !.store[id].restoreInstructionsAfterGreeting = FALSE,
                           !.store[id].originalInstructions = ""]
            ELSE m1
  IN WsSend(m2, c, "ai_response_interrupted", Null)

responseInterruptedHandler(m, c) ==
  LET id == connectionId[c]
      m1 == [m EXCEPT !.store = clearTextBuffer(setAISpeaking(m.store, id, FALSE), id)]
  IN WsSend(m1, c, "ai_response_interrupted", Null)

errorHandler(m, c) == WsSend(m, c, "error", Null)

\* audioChunkHandler h (of the stream with AbortController h), run for a chunk of
\* stream s
audioChunkHandler(m, h, s) ==
  LET c == m.streams[h].conn
      id == connectionId[c]
      stop == [m EXCEPT !.elListeners = @ \ {h}, !.aborted = @ \cup {h}]
  IN IF ~Has(m.store, id) THEN stop
     ELSE IF shouldBargeIn(m.store, id) THEN stop
     ELSE IF ws[c] = "open" THEN WsSend(m, c, "audio", s)
     ELSE stop

\* streamEndHandler and streamAbortedHandler of the stream with AbortController h
streamEndHandler(m, h) ==
  LET id == connectionId[m.streams[h].conn] IN
  IF Has(m.store, id) /\ m.store[id].elevenLabsChunkHandler # Null
  THEN [m EXCEPT !.elListeners = @ \ {m.store[id].elevenLabsChunkHandler},
                 !.store[id].elevenLabsChunkHandler = Null]
  ELSE m

\* streamTextDeltaToElevenLabs after streamTextToSpeech has resolved: the three
\* listeners of the stream with AbortController h are registered
registerStreamHandlers(m, h) ==
  LET id == connectionId[m.streams[h].conn]
      m1 == [m EXCEPT !.elListeners = @ \cup {h}, !.endOnce = @ \cup {h},
                      !.abortedOnce = @ \cup {h}]
  IN IF Has(m1.store, id) THEN [m1 EXCEPT !.store[id].elevenLabsChunkHandler = h] ELSE m1

\* handleAudioChunk: no await inside, so one frame is one step
handleAudioChunk(m, c, audioChunk) ==
  LET id == connectionId[c] IN
  IF ~Has(m.store, id) THEN m
  ELSE
    LET wasUserSpeaking == m.store[id].isUserSpeaking
        isUserSpeaking == ~isSilent(audioChunk)
        m1 == [m EXCEPT !.store = setUserSpeaking(addAudioChunk(m.store, id, audioChunk),
                                                  id, isUserSpeaking, now)]
        bargeIn == shouldBargeIn(m1.store, id)
        m2 == IF bargeIn
              THEN LET a == abortAIResponse(Call(m1, "abortAIResponse", c), id)
                       b == [cancelResponse(a, c) EXCEPT
                               !.hist[c].barged =
                                  IF m1.resp[c].status = "active"
                                  THEN @ \cup {m1.resp[c].no} ELSE @]
                   IN WsSend(b, c, "barge_in", Null)
              ELSE m1
        m3 == IF isUserSpeaking THEN sendAudioInput(m2, c) ELSE m2
        silence == isSilenceDetected(m3.store, id, silenceDurationMs, now)
        m4 == IF silence
              THEN [signalAudioInputDone(m3, c) EXCEPT
                      !.store = clearAudioBuffer(m3.store, id)]
              ELSE m3
        committed == silence /\ m3.session[c] = "open"
    IN [m4 EXCEPT
          !.hist[c].silentSince =
             IF isUserSpeaking THEN Null
             ELSE IF wasUserSpeaking THEN now ELSE @,
          !.hist[c].commits =
             LET before == IF isUserSpeaking \/ wasUserSpeaking THEN 0 ELSE @
             IN IF committed /\ ~isUserSpeaking /\ before < 2 THEN before + 1 ELSE before]

\* cleanupConnection that removes the entry before it closes the model session
cleanupConnection_removesFirst(m, c, hasSession, fail) ==
  LET id == connectionId[c]
      m3 == abortAIResponse(Call(m, "abortAIResponse", c), id)
  IN [remove(m3, id) EXCEPT !.hist[c].cleanupEnded = ~hasSession]

\* cleanupConnection up to its await of closeSession (hasSession) or to its end.
\* fail names the step that throws: "removeListener", "abort" or "none"
\* (closeSession catches its own errors and never rejects).
cleanupConnection(m, c, hasSession, fail) ==
  LET id == connectionId[c]
      m1 == IF Has(m.store, id) /\ m.store[id].elevenLabsChunkHandler # Null
            THEN [m EXCEPT
                    !.elListeners = IF fail = "removeListener" THEN @
                                    ELSE @ \ {m.store[id].elevenLabsChunkHandler},
                    !.store[id].elevenLabsChunkHandler = Null]
            ELSE m
      m2 == IF /\ Has(m1.store, id) /\ m1.store[id].eventHandlers # Null
               /\ fail # "removeListener"
            THEN [m1 EXCEPT !.oaListeners =
                              SelectSeq(@, LAMBDA x : x # m1.store[id].eventHandlers)]
            ELSE m1
      abortThrows == /\ fail = "abort"
                     /\ Has(m2.store, id)
                     /\ m2.store[id].elevenlabsAbortController # Null
  IN IF abortThrows
     THEN [m2 EXCEPT !.aborted = @ \cup {m2.store[id].elevenlabsAbortController},
                     !.threw = TRUE,
                     !.hist[c].cleanupEnded = TRUE]
     ELSE
       LET m3 == abortAIResponse(Call(m2, "abortAIResponse", c), id)
       IN IF hasSession
          THEN closeSession(m3, c)
          ELSE [remove(m3, id) EXCEPT !.hist[c].cleanupEnded = TRUE]

\* cleanupConnection after its await: StateManager.remove
cleanupResume(m, c) == [remove(m, connectionId[c]) EXCEPT !.hist[c].cleanupEnded = TRUE]

\* ----------------------------------------------------------------- actions
NoEntry == [x \in {} |-> NewEntry]

Init ==
  /\ now = TickMs
  /\ pc = [c \in Conns |-> "idle"]
  /\ connectionId = [c \in Conns |-> <<>>]
  /\ ws = [c \in Conns |-> "open"]
  /\ wsListening = [c \in Conns |-> FALSE]
  /\ closeEvents = [c \in Conns |-> 0]
  /\ framesIn = [c \in Conns |-> 0]
  /\ store = NoEntry
  /\ session = [c \in Conns |-> "none"]
  /\ instructions = [c \in Conns |-> ""]
  /\ resp = [c \in Conns |-> [no |-> 0, status |-> "idle", pending |-> FALSE]]
  /\ oaListeners = <<>>
  /\ streams = <<>>
  /\ aborted = {}
  /\ elListeners = {}
  /\ endOnce = {}
  /\ abortedOnce = {}
  /\ greeting = [c \in Conns |-> "none"]
  /\ cleanups = [c \in Conns |-> 0]
  /\ hist = [c \in Conns |-> [silentSince |-> Null, commits |-> 0, barged |-> {},
                              cleanupEnded |-> FALSE, greetingResp |-> 0,
                              lastChunk |-> 0]]
  /\ obs = [kind |-> "init", conn |-> 0, sent |-> <<>>, calls |-> <<>>, threw |-> FALSE]

\* a suspended cleanupConnection resumes (a microtask) before any other event runs;
\* no event runs in a process that an uncaught exception has ended
Quiet == \A c \in Conns : cleanups[c] = 0 /\ pc[c] # "crashed"

Tick ==
  /\ Quiet
  /\ now' = now + TickMs
  /\ obs' = [kind |-> "Tick", conn |-> 0, sent |-> <<>>, calls |-> <<>>, threw |-> FALSE]
  /\ UNCHANGED <<pc, connectionId, ws, wsListening, closeEvents, framesIn, store, session,
                 instructions, resp, oaListeners, streams, aborted, elListeners, endOnce,
                 abortedOnce, greeting, cleanups, hist>>

\* the clock, in the steps of SpecTimeout
TimeoutTick ==
  /\ Quiet
  /\ now' = now + TimeoutTickMs
  /\ obs' = [kind |-> "Tick", conn |-> 0, sent |-> <<>>, calls |-> <<>>, threw |-> FALSE]
  /\ UNCHANGED <<pc, connectionId, ws, wsListening, closeEvents, framesIn, store, session,
                 instructions, resp, oaListeners, streams, aborted, elListeners, endOnce,
                 abortedOnce, greeting, cleanups, hist>>

\* Connect whose failing branch returns only after StateManager.initialize
Connect_rejectsAfterInitialize(c, u, ok) ==
  /\ Quiet
  /\ pc[c] = "idle"
  /\ connectionId' = [connectionId EXCEPT ![c] = <<u, Consultant, now>>]
  /\ pc' = [pc EXCEPT ![c] = IF ok THEN "opening" ELSE "rejected"]
  /\ ws' = [ws EXCEPT ![c] = IF ok THEN @ ELSE "closed"]
  /\ Commit([Cur EXCEPT !.store = initialize(store, <<u, Consultant, now>>)],
            IF ok THEN "Connect" ELSE "Reject", c)
  /\ UNCHANGED <<now, wsListening, closeEvents, framesIn, greeting, cleanups>>

\* handleConnection to its await of createSession: authentication and the consultant
\* lookup fail (ws.close(1008)) or StateManager.initialize runs
Connect(c, u, ok) ==
  /\ Quiet
  /\ pc[c] = "idle"
  /\ IF ok
     THEN /\ connectionId' = [connectionId EXCEPT ![c] = <<u, Consultant, now>>]
          /\ pc' = [pc EXCEPT ![c] = "opening"]
          /\ ws' = ws
          /\ Commit([Cur EXCEPT !.store = initialize(store, <<u, Consultant, now>>)],
                    "Connect", c)
     ELSE /\ pc' = [pc EXCEPT ![c] = "rejected"]
          /\ ws' = [ws EXCEPT ![c] = "closed"]
          /\ connectionId' = connectionId
          /\ Commit(Cur, "Reject", c)
  /\ UNCHANGED <<now, wsListening, closeEvents, framesIn, greeting, cleanups>>

\* emit on the OpenAIRealtimeClient singleton from the session's 'message' listener:
\* a listener that throws ends the run and the catch emits 'error'
EmitOpenAI(Handler(_, _), m) ==
  LET r == EmitSeq(Handler, m.oaListeners, m)
  IN IF r.threw
     THEN [EmitSeq(errorHandler, r.oaListeners, [r EXCEPT !.threw = FALSE])
             EXCEPT !.threw = TRUE]
     ELSE r

\* setupOpenAIHandlers
setupOpenAIHandlers(m, c) ==
  LET id == connectionId[c] IN
  IF ~Has(m.store, id) THEN m
  ELSE [m EXCEPT !.oaListeners = Append(@, c), !.store[id].eventHandlers = c]

\* handleConnection after createSession has resolved, to its end
SessionOpened(c) ==
  /\ Quiet
  /\ pc[c] = "opening"
  /\ now - connectionId[c][3] < SessionTimeoutMs
  /\ LET m1 == [Cur EXCEPT !.session[c] = "open", !.instructions[c] = PersonaInLanguage]
         m2 == setupOpenAIHandlers(m1, c)
     IN Commit(WsSend(m2, c, "connection_success", Null), "SessionOpened", c)
  /\ pc' = [pc EXCEPT ![c] = "active"]
  /\ greeting' = [greeting EXCEPT ![c] = "armed"]
  /\ wsListening' = [wsListening EXCEPT ![c] = TRUE]
  /\ UNCHANGED <<now, connectionId, ws, closeEvents, framesIn, cleanups>>

\* createSession (or getUserById) rejects: the catch of handleConnection
SessionOpenFailed(c) ==
  /\ Quiet
  /\ pc[c] = "opening"
  /\ ws' = [ws EXCEPT ![c] = "closed"]
  /\ pc' = [pc EXCEPT ![c] = "failed"]
  /\ Commit(cleanupConnection(Cur, c, FALSE, "none"), "SessionOpenFailed", c)
  /\ UNCHANGED <<now, connectionId, wsListening, closeEvents, framesIn, greeting, cleanups>>

\* the 10 s timer of createSession fires with the session socket not open: the promise
\* rejects with 'Connection timeout' and the catch of handleConnection runs
SessionOpenTimeout(c) ==
  /\ Quiet
  /\ pc[c] = "opening"
  /\ now - connectionId[c][3] >= SessionTimeoutMs
  /\ ws' = [ws EXCEPT ![c] = "closed"]
  /\ pc' = [pc EXCEPT ![c] = "failed"]
  /\ Commit(cleanupConnection(Cur, c, FALSE, "none"), "SessionOpenTimeout", c)
  /\ UNCHANGED <<now, connectionId, wsListening, closeEvents, framesIn, greeting, cleanups>>

\* the client socket closes (n = 1: 'close') or errors (n = 2: 'error', then 'close');
\* the events reach only listeners that are registered by then
ClientDisconnect(c, n) ==
  /\ Quiet
  /\ pc[c] \in {"opening", "active"}
  /\ ws[c] = "open"
  /\ ws' = [ws EXCEPT ![c] = "closed"]
  /\ closeEvents' = [closeEvents EXCEPT ![c] = IF wsListening[c] THEN n ELSE 0]
  /\ Commit(Cur, "ClientDisconnect", c)
  /\ UNCHANGED <<now, pc, connectionId, wsListening, framesIn, greeting, cleanups>>

\* ws.on('close') / ws.on('error'): cleanupConnection(connectionId, session) to its await
CleanupBegin(c, fail) ==
  /\ closeEvents[c] > 0
  /\ closeEvents' = [closeEvents EXCEPT ![c] = @ - 1]
  /\ LET m == cleanupConnection(Cur, c, TRUE, fail)
     IN /\ Commit(m, "CleanupBegin", c)
        /\ cleanups' = [cleanups EXCEPT ![c] = IF m.threw THEN @ ELSE @ + 1]
  /\ UNCHANGED <<now, pc, connectionId, ws, wsListening, framesIn, greeting>>

CleanupFinish(c) ==
  /\ cleanups[c] > 0
  /\ cleanups' = [cleanups EXCEPT ![c] = @ - 1]
  /\ Commit(cleanupResume(Cur, c), "CleanupFinish", c)
  /\ UNCHANGED <<now, pc, connectionId, ws, wsListening, closeEvents, framesIn, greeting>>

\* the 1500 ms timer of handleConnection: sendInitialGreeting to its 200 ms await
GreetingTimer(c) ==
  /\ Quiet
  /\ greeting[c] = "armed"
  /\ LET ready == Has(store, connectionId[c]) /\ session[c] = "open"
     IN /\ greeting' = [greeting EXCEPT ![c] = IF ready THEN "waiting" ELSE "done"]
        /\ Commit(IF ready THEN updateSessionInstructions(Cur, c, GreetingPrompt) ELSE Cur,
                  "GreetingTimer", c)
  /\ UNCHANGED <<now, pc, connectionId, ws, wsListening, closeEvents, framesIn, cleanups>>

\* sendInitialGreeting after its 200 ms await
GreetingContinue(c) ==
  /\ Quiet
  /\ greeting[c] = "waiting"
  /\ greeting' = [greeting EXCEPT ![c] = "done"]
  /\ LET id == connectionId[c]
         m1 == createResponse([Cur EXCEPT !.store = setAISpeaking(store, id, TRUE)], c)
         m2 == IF Has(m1.store, id)
               THEN [m1 EXCEPT !.store[id].restoreInstructionsAfterGreeting = TRUE,
                               !.store[id].originalInstructions = Persona]
               ELSE m1
         \* the response that createResponse asks for is the next one to start
         m3 == IF session[c] = "open"
               THEN [m2 EXCEPT !.hist[c].greetingResp = resp[c].no + 1]
               ELSE m2
     IN Commit(m3, "GreetingContinue", c)
  /\ UNCHANGED <<now, pc, connectionId, ws, wsListening, closeEvents, framesIn, cleanups>>

\* ws.on('message') with a binary frame
\* AudioFrame that counts the frame and suspends before handleAudioChunk has run
AudioFrame_deferred(c, audioChunk) ==
  /\ Quiet
  /\ wsListening[c]
  /\ ws[c] = "open"
  /\ framesIn' = [framesIn EXCEPT ![c] = @ + 1]
  /\ Commit(Cur, "AudioFrame", c)
  /\ UNCHANGED <<now, pc, connectionId, ws, wsListening, closeEvents, greeting, cleanups>>

AudioFrame(c, audioChunk) ==
  /\ Quiet
  /\ wsListening[c]
  /\ ws[c] = "open"
  /\ framesIn' = [framesIn EXCEPT ![c] = @ + 1]
  /\ Commit(handleAudioChunk(Cur, c, audioChunk), "AudioFrame", c)
  /\ UNCHANGED <<now, pc, connectionId, ws, wsListening, closeEvents, greeting, cleanups>>

\* ------------------------------------------------- the model session (remote)
ModelResponseStart(c) ==
  /\ Quiet
  /\ session[c] = "open"
  /\ resp[c].pending
  /\ resp[c].status = "idle"
  /\ Commit([Cur EXCEPT !.resp[c] = [no |-> @.no + 1, status |-> "active",
                                     pending |-> FALSE]], "ModelResponseStart", c)
  /\ UNCHANGED <<now, pc, connectionId, ws, wsListening, closeEvents, framesIn, greeting,
                 cleanups>>

\* 'response.text.delta' on the session of c: emit('text_delta')
ModelTextDelta(c, delta) ==
  /\ Quiet
  /\ session[c] = "open"
  /\ resp[c].status \in {"active", "cancelling"}
  /\ Commit(EmitOpenAI(LAMBDA m, x : textDeltaHandler(m, x, delta, c, resp[c].no), Cur),
            "ModelTextDelta", c)
  /\ UNCHANGED <<now, pc, connectionId, ws, wsListening, closeEvents, framesIn, greeting,
                 cleanups>>

\* 'response.done' on the session of c: emit('response_done')
ModelResponseDone(c) ==
  /\ Quiet
  /\ session[c] = "open"
  /\ resp[c].status \in {"active", "cancelling"}
  /\ Commit(EmitOpenAI(responseDoneHandler, [Cur EXCEPT !.resp[c].status = "idle"]),
            "ModelResponseDone", c)
  /\ UNCHANGED <<now, pc, connectionId, ws, wsListening, closeEvents, framesIn, greeting,
                 cleanups>>

\* 'response.interrupted' on the session of c, after a response.cancel
ModelResponseInterrupted(c) ==
  /\ Quiet
  /\ session[c] = "open"
  /\ resp[c].status = "cancelling"
  /\ Commit(EmitOpenAI(responseInterruptedHandler, [Cur EXCEPT !.resp[c].status = "idle"]),
            "ModelResponseInterrupted", c)
  /\ UNCHANGED <<now, pc, connectionId, ws, wsListening, closeEvents, framesIn, greeting,
                 cleanups>>

\* an 'error' event or a transport error of the session of c: emit('error')
ModelError(c) ==
  /\ Quiet
  /\ session[c] = "open"
  /\ oaListeners # <<>>
  /\ Commit(EmitOpenAI(errorHandler, Cur), "ModelError", c)
  /\ UNCHANGED <<now, pc, connectionId, ws, wsListening, closeEvents, framesIn, greeting,
                 cleanups>>

\* the remote end closes the session of c
ModelSessionClosed(c) ==
  /\ Quiet
  /\ session[c] = "open"
  /\ Commit([Cur EXCEPT !.session[c] = "closed", !.resp[c].status = "idle",
                        !.resp[c].pending = FALSE], "ModelSessionClosed", c)
  /\ UNCHANGED <<now, pc, connectionId, ws, wsListening, closeEvents, framesIn, greeting,
                 cleanups>>

\* ------------------------------------------- the synthesis streams (remote)
StreamIds == 1..Len(streams)

\* axios.post of stream s settles: the response arrives ("ok"), the request fails
\* ("error"), or its signal was aborted meanwhile (ERR_CANCELED: 'stream_aborted' is
\* emitted and streamTextToSpeech returns normally)
TtsResponse(s, outcome) ==
  /\ Quiet
  /\ s \in StreamIds
  /\ streams[s].phase = "request"
  /\ LET c == streams[s].conn IN
     IF s \in aborted
     THEN LET m1 == EmitSeq(streamEndHandler, SeqOfSet(abortedOnce),
                            [Cur EXCEPT !.streams[s].phase = "end"])
              m2 == [m1 EXCEPT !.abortedOnce = {}]
          IN Commit(registerStreamHandlers(m2, s), "TtsAborted", c)
     ELSE IF outcome = "ok"
     THEN Commit(registerStreamHandlers([Cur EXCEPT !.streams[s].phase = "stream"], s),
                 "TtsResponse", c)
     ELSE Commit(WsSend([Cur EXCEPT !.streams[s].phase = "end"], c, "error", Null),
                 "TtsError", c)
  /\ UNCHANGED <<now, pc, connectionId, ws, wsListening, closeEvents, framesIn, greeting,
                 cleanups>>

\* response.data 'data' of stream s: emit('audio_chunk') to every registered listener
TtsChunk(s) ==
  /\ Quiet
  /\ s \in StreamIds
  /\ streams[s].phase = "stream"
  /\ s \notin aborted
  /\ LET m1 == EmitSeq(LAMBDA m, h : audioChunkHandler(m, h, s), SeqOfSet(elListeners), Cur)
         got(c) == \E i \in 1..Len(m1.sent) :
                     m1.sent[i].to = c /\ m1.sent[i].type = "audio"
         \* the latest fragment of which the client of c has received audio
         m2 == [m1 EXCEPT !.hist = [c \in Conns |->
                   IF got(c) /\ s > m1.hist[c].lastChunk
                   THEN [m1.hist[c] EXCEPT !.lastChunk = s] ELSE m1.hist[c]]]
     IN Commit(m2, "TtsChunk", streams[s].conn)
  /\ UNCHANGED <<now, pc, connectionId, ws, wsListening, closeEvents, framesIn, greeting,
                 cleanups>>

\* response.data 'end' of stream s: emit('stream_end') to every once-listener
TtsEnd(s) ==
  /\ Quiet
  /\ s \in StreamIds
  /\ streams[s].phase = "stream"
  /\ s \notin aborted
  /\ LET m1 == EmitSeq(streamEndHandler, SeqOfSet(endOnce),
                       [Cur EXCEPT !.streams[s].phase = "end"])
     IN Commit([m1 EXCEPT !.endOnce = {}], "TtsEnd", streams[s].conn)
  /\ UNCHANGED <<now, pc, connectionId, ws, wsListening, closeEvents, framesIn, greeting,
                 cleanups>>

\* TtsDestroyed that reports the end of the aborted stream to the client as an error
TtsDestroyed_reportsError(s) ==
  /\ Quiet
  /\ s \in StreamIds
  /\ streams[s].phase = "stream"
  /\ s \in aborted
  /\ Commit(WsSend([Cur EXCEPT !.streams[s].phase = "end"], streams[s].conn, "error", Null),
            "TtsDestroyed", streams[s].conn)
  /\ UNCHANGED <<now, pc, connectionId, ws, wsListening, closeEvents, framesIn, greeting,
                 cleanups>>

\* an aborted signal destroys the response stream of s: no event is emitted
TtsDestroyed(s) ==
  /\ Quiet
  /\ s \in StreamIds
  /\ streams[s].phase = "stream"
  /\ s \in aborted
  /\ Commit([Cur EXCEPT !.streams[s].phase = "end"], "TtsDestroyed", streams[s].conn)
  /\ UNCHANGED <<now, pc, connectionId, ws, wsListening, closeEvents, framesIn, greeting,
                 cleanups>>

\* response.data 'error' of stream s whose signal is not aborted: emit('error') on the
\* ElevenLabsStreamingClient singleton, which has no 'error' listener, so emit throws
\* inside the stream's callback and the uncaught exception ends the process (every
\* socket of the process closes with it)
TtsStreamError(s) ==
  /\ Quiet
  /\ s \in StreamIds
  /\ streams[s].phase = "stream"
  /\ s \notin aborted
  /\ Commit([Cur EXCEPT !.streams[s].phase = "end", !.threw = TRUE,
                        !.session = [c \in Conns |-> IF @[c] = "open" THEN "closed" ELSE @[c]]],
            "TtsStreamError", streams[s].conn)
  /\ pc' = [c \in Conns |-> "crashed"]
  /\ ws' = [c \in Conns |-> "closed"]
  /\ wsListening' = [c \in Conns |-> FALSE]
  /\ closeEvents' = [c \in Conns |-> 0]
  /\ UNCHANGED <<now, connectionId, framesIn, greeting, cleanups>>

\* ------------------------------------------------------------ specifications
\* each text_delta starts one synthesis stream per registered listener
RoomForDelta(max) == Len(streams) + Len(oaListeners) <= max

\* Spec: one connection in conversation (greeting, frames, responses, synthesis)
Next ==
  \/ Connect(1, "u1", TRUE)
  \/ SessionOpened(1)
  \/ GreetingTimer(1)
  \/ GreetingContinue(1)
  \/ \E f \in Frames : framesIn[1] < MaxFrames /\ AudioFrame(1, f)
  \/ resp[1].no < MaxResponses /\ ModelResponseStart(1)
  \/ \E d \in Deltas : RoomForDelta(MaxStreams) /\ ModelTextDelta(1, d)
  \/ ModelResponseDone(1)
  \/ ModelResponseInterrupted(1)
  \/ ModelError(1)
  \/ ModelSessionClosed(1)
  \/ \E s \in StreamIds, o \in {"ok", "error"} : TtsResponse(s, o)
  \/ \E s \in StreamIds : TtsChunk(s)
  \/ \E s \in StreamIds : TtsEnd(s)
  \/ \E s \in StreamIds : TtsDestroyed(s)

Spec == Init /\ [][Next]_vars

\* SpecBargeIn: one connection; every event that changes what handleAudioChunk reads
\* (the entry's flags and stored handles, the session's state, the response in flight)
NextBargeIn ==
  \/ Connect(1, "u1", TRUE)
  \/ SessionOpened(1)
  \/ GreetingTimer(1)
  \/ GreetingContinue(1)
  \/ \E f \in Frames : framesIn[1] < BargeFrames /\ AudioFrame(1, f)
  \/ resp[1].no < BargeResponses /\ ModelResponseStart(1)
  \/ \E d \in Deltas : RoomForDelta(BargeStreams) /\ ModelTextDelta(1, d)
  \/ ModelResponseDone(1)
  \/ ModelResponseInterrupted(1)
  \/ ModelSessionClosed(1)
  \/ \E s \in StreamIds, o \in {"ok", "error"} : TtsResponse(s, o)

SpecBargeIn == Init /\ [][NextBargeIn]_vars

\* SpecSilence: one connection, its frames and the clock
NextSilence ==
  \/ now + TickMs <= MaxClock /\ Tick
  \/ Connect(1, "u1", TRUE)
  \/ SessionOpened(1)
  \/ \E f \in Frames : framesIn[1] < SilenceFrames /\ AudioFrame(1, f)
  \/ ModelSessionClosed(1)

SpecSilence == Init /\ [][NextSilence]_vars

\* SpecLifecycle: one connection from its handshake to its teardown
NextLifecycle ==
  \/ \E ok \in BOOLEAN : Connect(1, "u1", ok)
  \/ SessionOpened(1)
  \/ SessionOpenFailed(1)
  \/ \E n \in {1, 2} : ClientDisconnect(1, n)
  \/ \E fail \in {"none", "removeListener", "abort"} : CleanupBegin(1, fail)
  \/ CleanupFinish(1)
  \/ GreetingTimer(1)
  \/ GreetingContinue(1)
  \/ resp[1].no < LifeResponses /\ ModelResponseStart(1)
  \/ \E d \in Deltas : RoomForDelta(LifeStreams) /\ ModelTextDelta(1, d)
  \/ ModelResponseDone(1)
  \/ \E s \in StreamIds, o \in {"ok", "error"} : TtsResponse(s, o)
  \/ \E s \in StreamIds : TtsChunk(s)

SpecLifecycle == Init /\ [][NextLifecycle]_vars

\* SpecTwo: two connections, each with its own model session, their sockets open
NextTwo ==
  \/ \E c \in Conns, u \in Users : Connect(c, u, TRUE)
  \/ \E c \in Conns : SessionOpened(c)
  \/ \E c \in Conns : GreetingTimer(c)
  \/ \E c \in Conns : GreetingContinue(c)
  \/ \E c \in Conns : resp[c].no < TwoResponses /\ ModelResponseStart(c)
  \/ \E c \in Conns, d \in Deltas : RoomForDelta(TwoStreams) /\ ModelTextDelta(c, d)
  \/ \E c \in Conns : ModelResponseDone(c)
  \/ \E c \in Conns : ModelError(c)
  \/ \E s \in StreamIds, o \in {"ok", "error"} : TtsResponse(s, o)
  \/ \E s \in StreamIds : TtsChunk(s)
  \/ \E s \in StreamIds : TtsEnd(s)

SpecTwo == Init /\ [][NextTwo]_vars

\* SpecTimeout: one connection whose model session is slow to open, and the clock
NextTimeout ==
  \/ now + TimeoutTickMs <= TimeoutClock /\ TimeoutTick
  \/ \E u \in Users : Connect(1, u, TRUE)
  \/ SessionOpened(1)
  \/ SessionOpenFailed(1)
  \/ SessionOpenTimeout(1)
  \/ \E n \in {1, 2} : ClientDisconnect(1, n)
  \/ CleanupBegin(1, "none")
  \/ CleanupFinish(1)
  \/ GreetingTimer(1)
  \/ GreetingContinue(1)
  \/ \E f \in Frames : framesIn[1] < TimeoutFrames /\ AudioFrame(1, f)

SpecTimeout == Init /\ [][NextTimeout]_vars

\* SpecBuffer: one connection receiving a long run of frames. The n-th frame holds the
\* one sample 2n mod 256, so that the frames of any 100 in a row differ and the run
\* goes from silent frames to non-silent ones.
NthFrame(n) == <<(2 * n) % 256, 0>>

NextBuffer ==
  \/ \E u \in Users : Connect(1, u, TRUE)
  \/ SessionOpened(1)
  \/ GreetingTimer(1)
  \/ GreetingContinue(1)
  \/ framesIn[1] < BufferFrames /\ AudioFrame(1, NthFrame(framesIn[1] + 1))
  \/ ModelSessionClosed(1)

SpecBuffer == Init /\ [][NextBuffer]_vars

\* SpecAudio: one connection whose client sends binary messages of any length
NextAudio ==
  \/ Connect(1, "u1", TRUE)
  \/ SessionOpened(1)
  \/ \E f \in Chunks : framesIn[1] < AudioFrames /\ AudioFrame(1, f)

SpecAudio == Init /\ [][NextAudio]_vars

\* SpecTeardown: one connection that is synthesizing when its client socket closes;
\* no step of cleanupConnection fails
NextTeardown ==
  \/ Connect(1, "u1", TRUE)
  \/ SessionOpened(1)
  \/ GreetingTimer(1)
  \/ GreetingContinue(1)
  \/ resp[1].no < TeardownResponses /\ ModelResponseStart(1)
  \/ \E d \in Deltas : RoomForDelta(TeardownStreams) /\ ModelTextDelta(1, d)
  \/ ModelResponseDone(1)
  \/ \E s \in StreamIds, o \in {"ok", "error"} : TtsResponse(s, o)
  \/ \E s \in StreamIds : TtsChunk(s)
  \/ \E s \in StreamIds : TtsEnd(s)
  \/ \E s \in StreamIds : TtsDestroyed(s)
  \/ \E n \in {1, 2} : ClientDisconnect(1, n)
  \/ CleanupBegin(1, "none")
  \/ CleanupFinish(1)

SpecTeardown == Init /\ [][NextTeardown]_vars

\* SpecGreeting: one connection, its greeting, the user's frames and the responses of
\* the session, which complete or are interrupted
NextGreeting ==
  \/ Connect(1, "u1", TRUE)
  \/ SessionOpened(1)
  \/ GreetingTimer(1)
  \/ GreetingContinue(1)
  \/ \E f \in Frames : framesIn[1] < GreetFrames /\ AudioFrame(1, f)
  \/ resp[1].no < GreetResponses /\ ModelResponseStart(1)
  \/ ModelResponseDone(1)
  \/ ModelResponseInterrupted(1)

SpecGreeting == Init /\ [][NextGreeting]_vars

\* SpecAbort: two connections of two users; the frames of connection 1 barge in on
\* its response while connection 2 has an entry of its own
NextAbort ==
  \/ Connect(1, "u1", TRUE)
  \/ Connect(2, "u2", TRUE)
  \/ \E c \in Conns : SessionOpened(c)
  \/ \E c \in Conns : GreetingTimer(c)
  \/ \E c \in Conns : GreetingContinue(c)
  \/ \E f \in Frames : framesIn[1] < AbortFrames /\ AudioFrame(1, f)
  \/ resp[1].no < AbortResponses /\ ModelResponseStart(1)
  \/ \E d \in Deltas : RoomForDelta(AbortStreams) /\ ModelTextDelta(1, d)
  \/ \E s \in StreamIds, o \in {"ok", "error"} : TtsResponse(s, o)

SpecAbort == Init /\ [][NextAbort]_vars

\* SpecLate: two connections of one user, their teardown, and the events of their
\* model sessions that arrive around it
NextLate ==
  \/ \E c \in Conns : Connect(c, "u1", TRUE)
  \/ \E c \in Conns : SessionOpened(c)
  \/ \E c \in Conns : GreetingTimer(c)
  \/ \E c \in Conns : GreetingContinue(c)
  \/ \E c \in Conns : resp[c].no < LateResponses /\ ModelResponseStart(c)
  \/ \E c \in Conns : ModelResponseDone(c)
  \/ \E c \in Conns : ClientDisconnect(c, 1)
  \/ \E c \in Conns : CleanupBegin(c, "none")
  \/ \E c \in Conns : CleanupFinish(c)

SpecLate == Init /\ [][NextLate]_vars

\* SpecSynthesis: one connection, the fragments of its responses and the life of the
\* synthesis streams they start
NextSynthesis ==
  \/ Connect(1, "u1", TRUE)
  \/ SessionOpened(1)
  \/ GreetingTimer(1)
  \/ GreetingContinue(1)
  \/ \E f \in Frames : framesIn[1] < SynthFrames /\ AudioFrame(1, f)
  \/ resp[1].no < SynthResponses /\ ModelResponseStart(1)
  \/ \E d \in Deltas : RoomForDelta(SynthStreams) /\ ModelTextDelta(1, d)
  \/ ModelError(1)
  \/ \E s \in StreamIds, o \in {"ok", "error"} : TtsResponse(s, o)
  \/ \E s \in StreamIds : TtsChunk(s)
  \/ \E s \in StreamIds : TtsEnd(s)
  \/ \E s \in StreamIds : TtsDestroyed(s)
  \/ \E s \in StreamIds : TtsStreamError(s)

SpecSynthesis == Init /\ [][NextSynthesis]_vars

\* ------------------------------------------------------------------ claims
Entry(c) == store[connectionId[c]]
Live(c) == Has(store, connectionId[c])
Active(c) == pc[c] = "active" /\ Live(c)
Sent(type, c) == \E i \in 1..Len(obs.sent) : obs.sent[i].type = type /\ obs.sent[i].to = c
Called(op, c) == \E i \in 1..Len(obs.calls) : obs.calls[i] = [op |-> op, conn |-> c]

\* C1: at the end of every processing step of an Active connection, isUserSpeaking
\* and isAISpeaking are not both true.
C1_NoOverlapAtStepEnd ==
  \A c \in Conns :
    Active(c) => ~(Entry(c).isUserSpeaking /\ Entry(c).isAISpeaking)

\* C2: a frame that classifies as non-silent, handled while isAISpeaking is true,
\* has within its own step: abortAIResponse invoked (the stored synthesis handle
\* aborted), cancelResponse issued on the model session if it is open, barge_in sent
\* to the client, and isAISpeaking false at the end of the step.
C2_BargeInWithinFrame ==
  [][\A c \in Conns :
       ( /\ obs'.kind = "AudioFrame" /\ obs'.conn = c
         /\ Live(c) /\ Entry(c).isAISpeaking
         /\ store'[connectionId[c]].audioBuffer # <<>>
         /\ LET b == store'[connectionId[c]].audioBuffer IN ~isSilent(b[Len(b)]) )
       => ( /\ \E i \in 1..Len(obs'.calls) :
                 obs'.calls[i] = [op |-> "abortAIResponse", conn |-> c]
            /\ Entry(c).elevenlabsAbortController # Null
                 => Entry(c).elevenlabsAbortController \in aborted'
            /\ session[c] = "open"
                 => \E i \in 1..Len(obs'.calls) :
                      obs'.calls[i] = [op |-> "cancelResponse", conn |-> c]
            /\ \E i \in 1..Len(obs'.sent) :
                 obs'.sent[i].type = "barge_in" /\ obs'.sent[i].to = c
            /\ ~store'[connectionId[c]].isAISpeaking )]_vars

\* C2's case: a frame has just barged in on a connection whose synthesis handle was
\* stored and whose model session is open
C2_Witness ==
  /\ obs.kind = "AudioFrame"
  /\ Sent("barge_in", 1)
  /\ Called("abortAIResponse", 1)
  /\ Called("cancelResponse", 1)
  /\ aborted # {}
  /\ ~Entry(1).isAISpeaking

\* C3: once the frames of a connection have classified as silent for silenceDurationMs
\* after the user was speaking, signalAudioInputDone has been sent exactly once for
\* that silence period, and the step that sends it leaves the audio buffer empty.
C3_CommitOncePerSilence ==
  \A c \in Conns :
    ( /\ Active(c) /\ session[c] = "open"
      /\ obs.kind = "AudioFrame" /\ obs.conn = c
      /\ hist[c].silentSince # Null
      /\ now - hist[c].silentSince >= silenceDurationMs )
    => ( /\ hist[c].commits = 1
         /\ Called("signalAudioInputDone", c) => Entry(c).audioBuffer = <<>> )

ModelEvents ==
  {"ModelTextDelta", "ModelResponseDone", "ModelResponseInterrupted", "ModelError"}

\* C4: a model event of the session of connection a neither changes the entry of
\* another connection b nor sends a message to b's client.
C4_ModelEventsIsolated ==
  [][\A a, b \in Conns :
       ( /\ a # b /\ obs'.kind \in ModelEvents /\ obs'.conn = a
         /\ Live(b) /\ connectionId[a] # connectionId[b] )
       => ( /\ store'[connectionId[b]] = store[connectionId[b]]
            /\ \A i \in 1..Len(obs'.sent) : obs'.sent[i].to # b )]_vars

\* C5: an audio chunk of a synthesis stream that connection a started for a fragment
\* of its own session is forwarded to a's client only.
C5_AudioToOwnClientOnly ==
  \A i \in 1..Len(obs.sent) :
    LET msg == obs.sent[i] IN
    (msg.type = "audio" /\ streams[msg.stream].conn = streams[msg.stream].src)
      => msg.to = streams[msg.stream].conn

\* C6: after a barge-in on a connection, no audio of a synthesis stream of the
\* response that was barged in on is forwarded to that connection's client.
C6_NoAudioAfterBargeIn ==
  \A i \in 1..Len(obs.sent) :
    LET msg == obs.sent[i] IN
    (msg.type = "audio" /\ streams[msg.stream].conn = msg.to
       /\ streams[msg.stream].src = msg.to)
      => streams[msg.stream].resp \notin hist[msg.to].barged

\* the synthesis cancellation handles of connection c that are live: not aborted,
\* their stream not ended
LiveSynthesisHandles(c) ==
  {s \in StreamIds : streams[s].conn = c /\ streams[s].phase # "end" /\ s \notin aborted}

\* C7: a connection has at most one live synthesis cancellation handle at a time.
C7_OneLiveHandle == \A c \in Conns : Cardinality(LiveSynthesisHandles(c)) <= 1

\* C8: while a model response is in flight for a connection, its entry holds a model
\* cancellation handle.
C8_ModelHandleWhileInFlight ==
  \A c \in Conns :
    (Live(c) /\ resp[c].status \in {"active", "cancelling"})
      => Entry(c).openaiAbortController # Null

\* C9: once an invocation of cleanupConnection has ended, whichever of its steps
\* failed, the entry of the connection is removed.
C9_CleanupReachesRemove ==
  \A c \in Conns : hist[c].cleanupEnded => ~Live(c)

\* C10: once the client socket of a connection is closed, its setup has ended and no
\* close event or cleanup of it is pending, the connection has no entry.
C10_NoEntryOutlivesSocket ==
  \A c \in Conns :
    ( /\ ws[c] = "closed" /\ pc[c] \in {"active", "failed", "rejected"}
      /\ closeEvents[c] = 0 /\ cleanups[c] = 0 )
    => ~Live(c)

\* C11: a connection whose model session has not opened 10 seconds after createSession
\* was called leaves its setup only by failing it: the client socket is closed and
\* no entry of the connection remains.
C11_OpenTimeoutFailsSetup ==
  [][\A c \in Conns :
       ( /\ pc[c] = "opening" /\ now - connectionId[c][3] >= SessionTimeoutMs
         /\ pc'[c] # "opening" )
       => ( /\ pc'[c] = "failed"
            /\ ws'[c] = "closed"
            /\ ~Has(store', connectionId[c]) )]_vars

\* C11's case: the timer of createSession has just failed the setup of connection 1,
\* whose client socket was still open
C11_Witness ==
  /\ obs.kind = "SessionOpenTimeout" /\ obs.conn = 1
  /\ pc[1] = "failed" /\ ws[1] = "closed" /\ closeEvents[1] = 0
  /\ ~Live(1)
  /\ now - connectionId[1][3] >= SessionTimeoutMs

\* C12: a connection refused at its handshake (authentication failed, consultant not
\* found, consultant without voice id) has its socket closed in that step, and the
\* step creates no entry and no model session; none exists for it afterwards.
C12_RejectCreatesNothing ==
  [][\A c \in Conns :
       pc'[c] = "rejected"
       => ( /\ ws'[c] = "closed"
            /\ session'[c] = "none"
            /\ connectionId'[c] = <<>>
            /\ pc[c] # "rejected" => (store' = store /\ obs'.calls = <<>>) )]_vars

\* C12's case: the handshake of connection 1 has just been refused
C12_Witness ==
  /\ obs.kind = "Reject" /\ obs.conn = 1
  /\ pc[1] = "rejected" /\ ws[1] = "closed"

\* C13: the audio buffer of a connection never holds more than 100 frames; once more
\* than 100 frames were added with no clear in between, it holds exactly the 100
\* most recently added, in arrival order.
C13_BufferKeepsLatest100 ==
  \A c \in Conns :
    Live(c) =>
      /\ Len(Entry(c).audioBuffer) <= AudioBufferLimit
      /\ framesIn[c] > AudioBufferLimit =>
           Entry(c).audioBuffer =
             [j \in 1..AudioBufferLimit |-> NthFrame(framesIn[c] - AudioBufferLimit + j)]

\* C13's case: a frame has just been added to the full buffer of connection 1
C13_Witness ==
  /\ obs.kind = "AudioFrame" /\ obs.conn = 1 /\ Live(1)
  /\ framesIn[1] > AudioBufferLimit
  /\ Len(Entry(1).audioBuffer) = AudioBufferLimit

\* C14: in every state of a connection that has an entry, abortAIResponse called twice
\* in a row leaves what one call leaves (isAISpeaking false, textBuffer empty, both
\* handle fields null), raises nothing, and the second call aborts no handle.
C14_AbortIdempotent ==
  \A c \in Conns :
    Live(c) =>
      LET id == connectionId[c]
          once == abortAIResponse(Cur, id)
          twice == abortAIResponse(once, id)
      IN /\ twice = once
         /\ twice.aborted = once.aborted
         /\ ~twice.threw
         /\ ~once.store[id].isAISpeaking
         /\ once.store[id].textBuffer = <<>>
         /\ once.store[id].elevenlabsAbortController = Null
         /\ once.store[id].openaiAbortController = Null

\* C14's case: abortAIResponse has just run on connection 1 and aborted its stored
\* handle; a second call would follow it directly
C14_Witness ==
  /\ Called("abortAIResponse", 1) /\ Live(1)
  /\ aborted # {}
  /\ Entry(1).elevenlabsAbortController = Null
  /\ ~Entry(1).isAISpeaking

\* C15: abortAIResponse on a connection that has an entry aborts each stored handle,
\* empties textBuffer, sets isAISpeaking false, and changes no other field of the entry
\* and no other entry; a frame of one connection that barges in changes no entry of
\* another connection.
C15_AbortFrame ==
  [][\A c \in Conns :
       Live(c) =>
         LET id == connectionId[c]
             e == store[id]
             a == abortAIResponse(Cur, id)
         IN /\ ({e.elevenlabsAbortController, e.openaiAbortController} \ {Null})
                 \subseteq a.aborted
            /\ a.store[id] = [e EXCEPT !.isAISpeaking = FALSE, !.textBuffer = <<>>,
                                       !.elevenlabsAbortController = Null,
                                       !.openaiAbortController = Null]
            /\ DOMAIN a.store = DOMAIN store
            /\ \A o \in DOMAIN store \ {id} : a.store[o] = store[o]
            /\ ( /\ obs'.kind = "AudioFrame" /\ obs'.conn = c
                 /\ \E i \in 1..Len(obs'.calls) :
                      obs'.calls[i] = [op |-> "abortAIResponse", conn |-> c] )
               => /\ e.elevenlabsAbortController # Null
                       => e.elevenlabsAbortController \in aborted'
                  /\ store'[id].textBuffer = <<>> /\ ~store'[id].isAISpeaking
                  /\ \A o \in DOMAIN store \ {id} : store'[o] = store[o] ]_vars

\* C15's case: a frame of connection 1 has just barged in and aborted its stored
\* handle while connection 2 has an entry of its own with a response being spoken
C15_Witness ==
  /\ obs.kind = "AudioFrame" /\ Called("abortAIResponse", 1)
  /\ Live(1) /\ Live(2) /\ connectionId[1] # connectionId[2]
  /\ aborted # {}
  /\ Entry(1).isUserSpeaking /\ Entry(1).audioBuffer # <<>>
  /\ Entry(2).isAISpeaking /\ Entry(2).textBuffer # <<>>

\* C16: a handshake that creates an entry under a connectionId that already has one
\* fails, and the entry that was there is unchanged.
C16_CreateExistingFails ==
  [][\A c \in Conns :
       ( /\ obs'.kind = "Connect" /\ obs'.conn = c
         /\ Has(store, connectionId'[c]) )
       => ( /\ store'[connectionId'[c]] = store[connectionId'[c]]
            /\ pc'[c] # "opening" )]_vars

\* C17: two connections that are set up at the same time (their model session opening
\* or open) have different connectionIds.
C17_ConnectionIdsDiffer ==
  \A a, b \in Conns :
    (a # b /\ pc[a] \in {"opening", "active"} /\ pc[b] \in {"opening", "active"})
      => connectionId[a] # connectionId[b]

\* C18: a response-complete event that reaches the handler of a connection whose
\* entry is absent raises no error, creates no entry and makes no call on the model
\* client for that connection.
C18_AbsentEntryIsNoOp ==
  [][\A c \in Conns :
       ( /\ obs'.kind = "ModelResponseDone"
         /\ \E i \in 1..Len(oaListeners) : oaListeners[i] = c
         /\ ~Live(c) )
       => ( /\ ~obs'.threw
            /\ DOMAIN store' = DOMAIN store
            /\ \A i \in 1..Len(obs'.calls) : obs'.calls[i].conn # c )]_vars

\* C19: in every state of a connection that has an entry, silenceStartTime is set
\* exactly when isUserSpeaking is false and the user has spoken before on the
\* connection (lastUserAudioTime is set).
C19_SilenceStartIffStoppedSpeaking ==
  \A c \in Conns :
    Live(c) =>
      ( Entry(c).silenceStartTime # Null
          <=> (~Entry(c).isUserSpeaking /\ Entry(c).lastUserAudioTime # Null) )

\* C20: while the user is speaking, isUserSpeaking is true, silenceStartTime is null
\* and lastUserAudioTime is set; while the user is silent after having spoken,
\* silenceStartTime is the instant of the frame at which the user stopped speaking.
C20_SilenceStartIsStopInstant ==
  \A c \in Conns :
    Live(c) =>
      /\ Entry(c).isUserSpeaking
           => (Entry(c).silenceStartTime = Null /\ Entry(c).lastUserAudioTime # Null)
      /\ (~Entry(c).isUserSpeaking /\ hist[c].silentSince # Null)
           => Entry(c).silenceStartTime = hist[c].silentSince

\* C21: the step in which a synthesis stream ends after its cancellation handle was
\* aborted (before the request settled, or while streaming) sends no error event to
\* the client and raises no error.
C21_AbortedStreamIsNoError ==
  [][\A s \in StreamIds :
       (s \in aborted /\ streams[s].phase # "end" /\ streams'[s].phase = "end")
       => ( /\ \A i \in 1..Len(obs'.sent) : obs'.sent[i].type # "error"
            /\ ~obs'.threw )]_vars

\* C21's case: a stream whose handle was aborted while it was streaming has just
\* ended, the client socket being open
C21_Witness ==
  /\ obs.kind = "TtsDestroyed" /\ obs.conn = 1
  /\ ws[1] = "open"
  /\ \E s \in StreamIds : s \in aborted /\ streams[s].phase = "end"

\* C22: a synthesis error that is no cancellation (at request time or in mid-stream)
\* or a model error on an Active connection sends an error event to that
\* connection's client and leaves the connection open with its entry.
C22_ErrorsKeepConnection ==
  [][\A c \in Conns :
       ( /\ obs'.kind \in {"TtsError", "TtsStreamError", "ModelError"} /\ obs'.conn = c
         /\ Active(c) /\ ws[c] = "open" )
       => ( /\ \E i \in 1..Len(obs'.sent) :
                 obs'.sent[i].type = "error" /\ obs'.sent[i].to = c
            /\ ws'[c] = "open" /\ pc'[c] = "active"
            /\ Has(store', connectionId[c]) )]_vars

\* C23: a connection whose setup failed has its client socket closed, and no client
\* socket is left open on a set-up connection whose server-side entry is gone.
C23_NoSocketLeftBehind ==
  \A c \in Conns :
    /\ pc[c] \in {"rejected", "failed"} => ws[c] = "closed"
    /\ (pc[c] = "active" /\ ws[c] = "open") => Live(c)

\* C24: the frames of a connection are handled one per step, in arrival order: the
\* step of the k-th frame is a frame step that leaves frame k last in the audio
\* buffer, right after frame k-1, with isUserSpeaking set from frame k, so the
\* handling of frame k has finished before that of frame k+1 starts.
C24_FramesInOrderOneAtATime ==
  [][\A c \in Conns :
       framesIn'[c] # framesIn[c]
       => ( /\ framesIn'[c] = framesIn[c] + 1
            /\ obs'.kind = "AudioFrame" /\ obs'.conn = c
            /\ Live(c) =>
                 LET b == store'[connectionId[c]].audioBuffer
                     f == NthFrame(framesIn'[c])
                 IN /\ b # <<>> /\ b[Len(b)] = f
                    /\ Len(b) > 1 => b[Len(b) - 1] = NthFrame(framesIn[c])
                    /\ store'[connectionId[c]].isUserSpeaking = ~isSilent(f) )]_vars

\* C24's case: the second or a later frame of connection 1 has just been handled
C24_Witness ==
  /\ obs.kind = "AudioFrame" /\ obs.conn = 1 /\ Live(1)
  /\ framesIn[1] >= 2
  /\ Len(Entry(1).audioBuffer) >= 2
  /\ Entry(1).isUserSpeaking

\* C26: teardown aborts the cancellation handles the entry holds, then closes the
\* model session, and only then removes the entry: the step that calls closeSession
\* has called abortAIResponse before it and leaves the entry in place, and the step
\* that removes an entry leaves no open model session and no handle of the entry
\* that is not aborted.
C26_TeardownOrder ==
  [][\A c \in Conns :
       /\ ( obs'.kind = "CleanupBegin" /\ obs'.conn = c /\ ~obs'.threw )
            => /\ \A i \in 1..Len(obs'.calls) :
                    obs'.calls[i].op = "closeSession"
                      => \E j \in 1..(i - 1) : obs'.calls[j].op = "abortAIResponse"
               /\ Live(c) => Has(store', connectionId[c])
               /\ ( Live(c) /\ Entry(c).elevenlabsAbortController # Null )
                    => Entry(c).elevenlabsAbortController \in aborted'
       /\ ( Live(c) /\ ~Has(store', connectionId[c]) )
            => /\ session'[c] # "open"
               /\ Entry(c).elevenlabsAbortController # Null
                    => Entry(c).elevenlabsAbortController \in aborted'
    ]_vars

C26_Witness ==
  /\ obs.kind = "CleanupFinish" /\ obs.conn = 1
  /\ ~Live(1) /\ session[1] = "closed"
  /\ aborted # {}

\* C27: a frame that the socket of a connection delivers is forwarded to the model
\* session (sendAudioInput) once if it classifies as non-silent and the session is
\* open, and not at all otherwise.
C27_ForwardIffSpeechAndOpen ==
  \A c \in Conns : \A f \in Frames :
    (Quiet /\ wsListening[c] /\ ws[c] = "open")
      => LET m == handleAudioChunk(Cur, c, f)
             forwards == {i \in 1..Len(m.calls) :
                            m.calls[i] = [op |-> "sendAudioInput", conn |-> c]}
         IN Cardinality(forwards) = IF ~isSilent(f) /\ session[c] = "open" THEN 1 ELSE 0

\* C27's case: a frame of connection 1 has just been forwarded, after an earlier
\* frame of it was handled
C27_Witness ==
  /\ obs.kind = "AudioFrame" /\ obs.conn = 1
  /\ Called("sendAudioInput", 1)
  /\ framesIn[1] >= 2
  /\ session[1] = "open"

\* C28: a non-blank text fragment of the response in flight of a connection is
\* appended to the connection's textBuffer and submitted to synthesis exactly once,
\* as that fragment: the event adds one synthesis stream, of the fragment's text, and
\* leaves textBuffer extended by the fragment (or cleared by the event itself).
C28_FragmentSynthesizedOnce ==
  \A c \in Conns : \A d \in Deltas :
    ( /\ Quiet /\ Live(c) /\ session[c] = "open"
      /\ resp[c].status \in {"active", "cancelling"}
      /\ ~IsBlank(d) )
    => LET m == EmitOpenAI(LAMBDA r, x : textDeltaHandler(r, x, d, c, resp[c].no), Cur)
           n == Len(streams)
       IN /\ Len(m.streams) = n + 1
          /\ m.streams[n + 1].text = d /\ m.streams[n + 1].conn = c
          /\ m.store[connectionId[c]].textBuffer \in {Entry(c).textBuffer \o d, <<>>}

\* C29: the first non-blank text fragment of a response, arriving while isAISpeaking
\* is false, sends the client ai_speaking_start exactly once; a fragment arriving
\* while isAISpeaking is true sends none.
C29_SpeakingStartOnce ==
  \A c \in Conns : \A d \in Deltas :
    ( /\ Quiet /\ Live(c) /\ ws[c] = "open" /\ session[c] = "open"
      /\ resp[c].status \in {"active", "cancelling"}
      /\ ~IsBlank(d) )
    => LET m == EmitOpenAI(LAMBDA r, x : textDeltaHandler(r, x, d, c, resp[c].no), Cur)
           starts == {i \in 1..Len(m.sent) :
                        m.sent[i].type = "ai_speaking_start" /\ m.sent[i].to = c}
           first == /\ resp[c].status = "active"
                    /\ Entry(c).textBuffer = <<>>
                    /\ \A s \in StreamIds :
                         ~(streams[s].src = c /\ streams[s].resp = resp[c].no)
       IN /\ Entry(c).isAISpeaking => Cardinality(starts) = 0
          /\ (first /\ ~Entry(c).isAISpeaking) => Cardinality(starts) = 1

\* C30: the greeting overrides the session instructions with the greeting prompt,
\* then sets isAISpeaking and requests a response; the persona instructions are
\* restored by the completion of the greeting response and by no other step, the
\* restore clears the saved instructions and the restore flag, and a completion that
\* finds the flag clear restores nothing.
C30_GreetingThenRestoreOnce ==
  [][\A c \in Conns :
       LET restores == {i \in 1..Len(obs'.calls) :
                          obs'.calls[i] = [op |-> "updateSessionInstructions", conn |-> c]}
           id == connectionId[c]
       IN /\ ( obs'.kind = "GreetingTimer" /\ obs'.conn = c /\ greeting'[c] = "waiting" )
               => /\ obs'.calls = <<[op |-> "updateSessionInstructions", conn |-> c]>>
                  /\ instructions'[c] = GreetingPrompt
                  /\ store'[id].isAISpeaking = store[id].isAISpeaking
          /\ ( /\ obs'.kind = "GreetingContinue" /\ obs'.conn = c
               /\ Live(c) /\ session[c] = "open" )
               => /\ instructions[c] = GreetingPrompt
                  /\ store'[id].isAISpeaking
                  /\ obs'.calls = <<[op |-> "createResponse", conn |-> c]>>
          /\ ( obs'.kind # "GreetingTimer" /\ restores # {} )
               => /\ obs'.kind = "ModelResponseDone" /\ obs'.conn = c
                  /\ resp[c].no = hist[c].greetingResp
                  /\ Cardinality(restores) = 1
                  /\ instructions'[c] = Persona
                  /\ ~store'[id].restoreInstructionsAfterGreeting
                  /\ store'[id].originalInstructions = ""
          /\ ( /\ obs'.kind = "ModelResponseDone" /\ obs'.conn = c /\ Live(c)
               /\ resp[c].no = hist[c].greetingResp )
               => restores # {}
          /\ ( /\ obs'.kind = "ModelResponseDone" /\ Live(c)
               /\ ~Entry(c).restoreInstructionsAfterGreeting )
               => restores = {}
    ]_vars

\* C31: a response-complete event of a connection that has its entry and an open
\* client socket sets isAISpeaking false, clears textBuffer and sends the client
\* ai_response_complete; a response-interrupted event does the same with
\* ai_response_interrupted; neither changes isUserSpeaking, silenceStartTime or the
\* audio buffer.
C31_ResponseEndEffects ==
  [][\A c \in Conns :
       ( /\ obs'.kind \in {"ModelResponseDone", "ModelResponseInterrupted"}
         /\ obs'.conn = c /\ Live(c) /\ ws[c] = "open" )
       => LET e == store'[connectionId[c]]
              type == IF obs'.kind = "ModelResponseDone"
                      THEN "ai_response_complete" ELSE "ai_response_interrupted"
              notices == {i \in 1..Len(obs'.sent) :
                            obs'.sent[i].to = c /\ obs'.sent[i].type = type}
          IN /\ Has(store', connectionId[c])
             /\ ~e.isAISpeaking
             /\ e.textBuffer = <<>>
             /\ Cardinality(notices) = 1
             /\ e.isUserSpeaking = Entry(c).isUserSpeaking
             /\ e.silenceStartTime = Entry(c).silenceStartTime
             /\ e.audioBuffer = Entry(c).audioBuffer
    ]_vars

\* C31's case: the response of connection 1, whose fragments were being synthesized
\* while the user's frames were buffered, has just completed
C31_Witness ==
  /\ obs.kind = "ModelResponseDone" /\ obs.conn = 1
  /\ Sent("ai_response_complete", 1)
  /\ Live(1) /\ Entry(1).audioBuffer # <<>>
  /\ \E s \in StreamIds : streams[s].conn = 1 /\ streams[s].resp = resp[1].no

\* C32: isSilenceDetected(id, thresholdMs) is true exactly when the entry exists,
\* its silenceStartTime is set, its isUserSpeaking is false and
\* now - silenceStartTime >= thresholdMs.
C32_SilenceDetectedIff ==
  \A c \in Conns : \A thresholdMs \in {TickMs, silenceDurationMs} :
    LET id == connectionId[c] IN
    isSilenceDetected(store, id, thresholdMs, now)
      <=> ( /\ Has(store, id)
            /\ store[id].silenceStartTime # Null
            /\ ~store[id].isUserSpeaking
            /\ now - store[id].silenceStartTime >= thresholdMs )

\* C32's case: the user of connection 1 has been silent for the threshold
C32_Witness ==
  /\ Live(1) /\ ~Entry(1).isUserSpeaking
  /\ isSilenceDetected(store, connectionId[1], silenceDurationMs, now)
  /\ ~isSilenceDetected(store, connectionId[1], silenceDurationMs, now - TickMs)

\* C33: remove(id) aborts the handles the entry holds and deletes the entry: after it
\* the id has no entry, every handle the entry held is aborted, and the entries of
\* the other ids are as before; on an id without entry it changes nothing.
C33_RemoveAbortsThenDeletes ==
  \A c \in Conns :
    LET id == connectionId[c]
        r == remove(Cur, id)
    IN IF Live(c)
       THEN /\ ~Has(r.store, id)
            /\ ({Entry(c).elevenlabsAbortController, Entry(c).openaiAbortController}
                   \ {Null}) \subseteq r.aborted
            /\ aborted \subseteq r.aborted
            /\ DOMAIN r.store = DOMAIN store \ {id}
            /\ \A o \in DOMAIN r.store : r.store[o] = store[o]
            /\ ~r.threw
       ELSE r = Cur

\* C33's case: the entry of connection 1 holds a handle that is not aborted, and
\* connection 2 has an entry of its own
C33_Witness ==
  /\ Live(1) /\ Live(2) /\ connectionId[1] # connectionId[2]
  /\ Entry(1).elevenlabsAbortController # Null
  /\ Entry(1).elevenlabsAbortController \notin aborted
  /\ ~Has(remove(Cur, connectionId[1]).store, connectionId[1])
  /\ Has(remove(Cur, connectionId[1]).store, connectionId[2])

\* C34: the AudioProcessor never throws: for the frame a connection has just
\* handled, calculateRMS does not throw, and it is 0 when the frame is empty or has an
\* odd-length tail.
C34_AudioProcessorNeverThrows ==
  \A c \in Conns :
    (obs.kind = "AudioFrame" /\ obs.conn = c /\ Live(c) /\ Entry(c).audioBuffer # <<>>)
      => LET b == Entry(c).audioBuffer
             audioChunk == b[Len(b)]
         IN /\ ~calculateRMSThrows(audioChunk)
            /\ Len(audioChunk) = 0 => isSilent(audioChunk)

\* C35: an audio chunk that a synthesis stream emits is sent to a client at most
\* once, however many fragments the connection has streamed.
C35_ChunkSentAtMostOnce ==
  \A c \in Conns :
    obs.kind = "TtsChunk"
      => Cardinality({i \in 1..Len(obs.sent) :
                        obs.sent[i].type = "audio" /\ obs.sent[i].to = c}) <= 1

\* C36: whenever an audio chunk is forwarded to the client of a connection,
\* isAISpeaking is true for that connection.
C36_AudioOnlyWhileAISpeaking ==
  \A c \in Conns :
    (obs.kind = "TtsChunk" /\ Sent("audio", c) /\ Live(c)) => Entry(c).isAISpeaking

\* C37: audio reaches the client of a connection in the order of the fragments it
\* was synthesized from: a chunk of a fragment is not sent after a chunk of a later
\* fragment of the connection.
C37_AudioInFragmentOrder ==
  [][\A c \in Conns : \A i \in 1..Len(obs'.sent) :
       ( /\ obs'.kind = "TtsChunk"
         /\ obs'.sent[i].type = "audio" /\ obs'.sent[i].to = c
         /\ streams[obs'.sent[i].stream].conn = c )
       => obs'.sent[i].stream >= hist[c].lastChunk
    ]_vars

\* the listeners of connection c that are registered on the two shared emitters
ListenersOf(c) ==
  [ model |-> {i \in 1..Len(oaListeners) : oaListeners[i] = c},
    audio_chunk |-> {h \in elListeners : streams[h].conn = c},
    stream_end |-> {h \in endOnce : streams[h].conn = c},
    stream_aborted |-> {h \in abortedOnce : streams[h].conn = c} ]

\* C38: once cleanupConnection has completed for a connection, none of its handlers
\* is registered on the model adapter or on the synthesis adapter.
C38_NoHandlerAfterCleanup ==
  \A c \in Conns :
    (hist[c].cleanupEnded /\ cleanups[c] = 0 /\ closeEvents[c] = 0)
      => ListenersOf(c) = [model |-> {}, audio_chunk |-> {}, stream_end |-> {},
                           stream_aborted |-> {}]

\* C39: cleanupConnection may run twice for a connection (socket error and socket
\* close), the second run starting while the first awaits closeSession or after it
\* has ended: no run throws, the model session is closed only while it is open (so
\* once), and a run that follows another one changes nothing: not the store, the
\* session, the registered listeners or the aborted handles.
C39_CleanupReentrant ==
  [][\A c \in Conns :
       ( obs'.kind \in {"CleanupBegin", "CleanupFinish"} /\ obs'.conn = c )
       => /\ ~obs'.threw
          /\ ( \E i \in 1..Len(obs'.calls) : obs'.calls[i].op = "closeSession" )
               => ( session[c] = "open" /\ session'[c] = "closed" )
          /\ ( \/ obs'.kind = "CleanupBegin" /\ (cleanups[c] > 0 \/ hist[c].cleanupEnded)
               \/ obs'.kind = "CleanupFinish" /\ hist[c].cleanupEnded )
               => /\ store' = store /\ session' = session
                  /\ oaListeners' = oaListeners /\ elListeners' = elListeners
                  /\ endOnce' = endOnce /\ abortedOnce' = abortedOnce
                  /\ aborted' = aborted /\ streams' = streams
    ]_vars

\* C39's case: the second run of cleanupConnection has started while the first one
\* awaits closeSession, after the first aborted a synthesis stream
C39_Witness ==
  /\ obs.kind = "CleanupBegin" /\ obs.conn = 1
  /\ cleanups[1] = 2
  /\ session[1] = "closed" /\ aborted # {}
  /\ ~obs.threw

\* C40: a response-interrupted event restores nothing and leaves the restore flag
\* and the saved instructions as they are, so after an interrupted greeting response
\* they stay set; a response-complete event that finds the flag set restores the
\* persona instructions once and clears flag and saved text; no other step than a
\* response-complete event restores or clears them while the entry lives.
C40_RestoreAfterInterruptedGreeting ==
  [][\A c \in Conns :
       LET id == connectionId[c]
           restores == {i \in 1..Len(obs'.calls) :
                          obs'.calls[i] = [op |-> "updateSessionInstructions", conn |-> c]}
           saved(s) == <<s[id].restoreInstructionsAfterGreeting, s[id].originalInstructions>>
       IN (Live(c) /\ Has(store', id))
          => /\ ( obs'.kind = "ModelResponseInterrupted" )
                  => ( restores = {} /\ saved(store') = saved(store)
                       /\ instructions'[c] = instructions[c] )
             /\ ( /\ obs'.kind = "ModelResponseDone" /\ obs'.conn = c
                  /\ Entry(c).restoreInstructionsAfterGreeting )
                  => ( /\ Cardinality(restores) = 1
                       /\ instructions'[c] = Persona
                       /\ saved(store') = <<FALSE, "">> )
             /\ ( obs'.kind \notin {"ModelResponseDone", "GreetingTimer", "GreetingContinue"} )
                  => ( restores = {} /\ saved(store') = saved(store) )
    ]_vars

\* C40's case: the greeting response of connection 1 was interrupted by a barge-in,
\* and the completion of the next response has just restored the persona
C40_Witness ==
  /\ obs.kind = "ModelResponseDone" /\ obs.conn = 1
  /\ Called("updateSessionInstructions", 1)
  /\ hist[1].greetingResp \in hist[1].barged
  /\ resp[1].no > hist[1].greetingResp
  /\ instructions[1] = Persona
  /\ Live(1) /\ ~Entry(1).restoreInstructionsAfterGreeting

\* C25: in every state of a connection with an open session, a text fragment that is
\* empty or only whitespace changes nothing: no synthesis stream is started, nothing
\* is sent to the client, no call is made, isAISpeaking keeps its value and nothing
\* is raised.
C25_BlankFragmentIsSkipped ==
  \A c \in Conns : \A d \in Deltas :
    (session[c] = "open" /\ IsBlank(d))
      => EmitOpenAI(LAMBDA m, x : textDeltaHandler(m, x, d, c, resp[c].no), Cur) = Cur

\* C25's case: a blank fragment has just been handled for connection 1 during a
\* response (a fragment that is not blank makes a call or sends a message)
C25_Witness ==
  /\ obs.kind = "ModelTextDelta" /\ obs.conn = 1
  /\ obs.calls = <<>> /\ obs.sent = <<>> /\ ~obs.threw
  /\ Live(1) /\ ws[1] = "open"
  /\ streams = <<>>

====
